---- MODULE Spec2Model ----
(***************************************************************************)
(* Model of e2pics (src/e2pics/app.py): the /picpix handler                *)
(* get_picutre_pixels, the two functools.lru_cache memoised functions      *)
(* fetch_picture and handle_picture, the aspect-fit resizer and the pixel  *)
(* packer.                                                                 *)
(*                                                                         *)
(* Numbers.  TLC integers are 32-bit signed, a packed pixel is an unsigned *)
(* 32-bit value, so a Python int is held as two limbs [hi, lo] with value  *)
(* hi * 2^16 + lo and 0 <= lo < 2^16.  hi is not truncated: a value that   *)
(* does not fit 32 bits shows as hi >= 2^16.                               *)
(*                                                                         *)
(* Images.  An image is [width, height, rows]; rows[y+1][x+1] is the       *)
(* pixel (x, y), a tuple <<r, g, b, a>>.  Source images of the model are   *)
(* of one colour: for those a bicubic resample (normalised weights) gives  *)
(* back the one premultiplied colour, so Pillow's resize is computed       *)
(* exactly.                                                                *)
(***************************************************************************)
EXTENDS Integers, Sequences, FiniteSets, TLC

(* ------------------------------ bounds ------------------------------- *)
\* app.py:11-12 set both cache sizes to 10; the model scales them down so
\* that eviction happens with three URLs.
FETCH_CACHE_SIZE == 2
HANDLE_CACHE_SIZE == 2
\* Largest requested width and height.
MaxDim == 2

(* ------------------------ Python ints as limbs ----------------------- *)
Limb == 256 * 256

PyInt(x) == [hi |-> x \div Limb, lo |-> x % Limb]

Shl8(v) == [hi |-> v.hi * 256 + (v.lo * 256) \div Limb, lo |-> (v.lo * 256) % Limb]

RECURSIVE ShiftLeft(_, _)
ShiftLeft(v, n) == IF n = 0 THEN v ELSE ShiftLeft(Shl8(v), n - 8)

RECURSIVE BitOrNat(_, _)
BitOrNat(a, b) ==
    IF a = 0 THEN b
    ELSE IF b = 0 THEN a
    ELSE (IF a % 2 = 1 \/ b % 2 = 1 THEN 1 ELSE 0) + 2 * BitOrNat(a \div 2, b \div 2)

BitOr(v, w) == [hi |-> BitOrNat(v.hi, w.hi), lo |-> BitOrNat(v.lo, w.lo)]

Shr8(v) == [hi |-> v.hi \div 256, lo |-> (v.hi % 256) * 256 + v.lo \div 256]

RECURSIVE ShiftRight(_, _)
ShiftRight(v, n) == IF n = 0 THEN v ELSE ShiftRight(Shr8(v), n - 8)

AndFF(v) == v.lo % 256

IsZero(v) == v.hi = 0 /\ v.lo = 0

(* ------------------------------ pixels ------------------------------- *)
RED == <<255, 0, 0, 255>>
SEMI == <<200, 100, 50, 128>>
CLEAR == <<0, 0, 0, 0>>

\* ImagingNew fills a new RGBA image with zeros.
ImageNew(w, h) ==
    [width |-> w, height |-> h, rows |-> [y \in 1..h |-> [x \in 1..w |-> CLEAR]]]

Uniform(w, h, p) ==
    [width |-> w, height |-> h, rows |-> [y \in 1..h |-> [x \in 1..w |-> p]]]

\* Pillow's MULDIV255 and the RGBA -> RGBa -> RGBA conversions around a
\* filtered resize of an RGBA image.
MulDiv255(a, b) == LET tmp == a * b + 128 IN ((tmp \div 256) + tmp) \div 256

Clip8(x) == IF x < 0 THEN 0 ELSE IF x > 255 THEN 255 ELSE x

Premultiply(p) == <<MulDiv255(p[1], p[4]), MulDiv255(p[2], p[4]), MulDiv255(p[3], p[4]), p[4]>>

Unpremultiply(p) ==
    IF p[4] = 255 \/ p[4] = 0 THEN p
    ELSE <<Clip8((255 * p[1]) \div p[4]), Clip8((255 * p[2]) \div p[4]),
           Clip8((255 * p[3]) \div p[4]), p[4]>>

\* A call's outcome: a returned value or a raised exception class.
Return(v) == [ok |-> TRUE, val |-> v]
Raise(e) == [ok |-> FALSE, exc |-> e]

\* Image.new("RGBA", size): ValueError for a negative side, zeros otherwise.
ImageNewChecked(w, h) ==
    IF w < 0 \/ h < 0 THEN Raise("ValueError") ELSE Return(ImageNew(w, h))

\* Image.resize(size, BICUBIC) on an RGBA image: a copy when the size is
\* unchanged, ValueError for a side below 1, otherwise the premultiplied
\* image resampled and converted back.
Resize(img, w, h) ==
    IF w = img.width /\ h = img.height THEN Return(img)
    ELSE IF w < 1 \/ h < 1 THEN Raise("ValueError")
    ELSE Return(Uniform(w, h, Unpremultiply(Premultiply(img.rows[1][1]))))

\* Mutant of Paste: the offset's coordinates change places.
Paste_swappedOffset(canvas, img, ox, oy) ==
    [canvas EXCEPT !.rows =
        [y \in 1..canvas.height |-> [x \in 1..canvas.width |->
            IF /\ x - oy \in 1..img.width
               /\ y - ox \in 1..img.height
            THEN img.rows[y - ox][x - oy]
            ELSE canvas.rows[y][x]]]]

\* Image.paste(img, (ox, oy)) without a mask: img's pixels overwrite the
\* canvas where they fall inside it.
Paste(canvas, img, ox, oy) ==
    [canvas EXCEPT !.rows =
        [y \in 1..canvas.height |-> [x \in 1..canvas.width |->
            IF /\ x - ox \in 1..img.width
               /\ y - oy \in 1..img.height
            THEN img.rows[y - oy][x - ox]
            ELSE canvas.rows[y][x]]]]

\* Mutant of ScaledSide: the quotient is rounded to the nearest integer.
ScaledSide_rounded(side, desired, other) ==
    (2 * side * desired + other) \div (2 * other)

\* int(side * (desired / other)) of app.py:22-23 and 26-27, for the
\* non-negative sizes of the model.
ScaledSide(side, desired, other) == (side * desired) \div other

\* The img.resize call of app.py:23 or 27, chosen by img.width >= img.height.
Scaled(img, desired_width, desired_height) ==
    IF img.width >= img.height
    THEN Resize(img, desired_width, ScaledSide(img.height, desired_width, img.width))
    ELSE Resize(img, ScaledSide(img.width, desired_height, img.height), desired_height)

\* The paste position of app.py:24 or 28; img is the source, scaled the
\* image the resize returned.
Offset(img, scaled, desired_width, desired_height) ==
    IF img.width >= img.height
    THEN <<0, (desired_height - scaled.height) \div 2>>
    ELSE <<(desired_width - scaled.width) \div 2, 0>>

\* Mutant of resize_to_keep_aspect_ratio: the scaled image is returned
\* instead of the canvas it was pasted on.
resize_noCanvas(img, desired_width, desired_height) ==
    LET new_img == ImageNewChecked(desired_width, desired_height) IN
    IF ~new_img.ok THEN new_img
    ELSE Scaled(img, desired_width, desired_height)

resize_to_keep_aspect_ratio(img, desired_width, desired_height) ==
    LET new_img == ImageNewChecked(desired_width, desired_height) IN
    IF ~new_img.ok THEN new_img
    ELSE LET scaled == Scaled(img, desired_width, desired_height) IN
         IF ~scaled.ok THEN scaled
         ELSE LET at == Offset(img, scaled.val, desired_width, desired_height) IN
              Return(Paste(new_img.val, scaled.val, at[1], at[2]))

(* ------------------------------ packer ------------------------------- *)
RECURSIVE Flatten(_)
Flatten(rows) == IF rows = <<>> THEN <<>> ELSE Head(rows) \o Flatten(Tail(rows))

\* img.getdata(): the pixels row by row.
GetData(img) == Flatten(img.rows)

\* Mutant of PackPixel: red and blue change places.
PackPixel_bgra(p) ==
    LET r == p[1] g == p[2] b == p[3] a == p[4] IN
    BitOr(BitOr(BitOr(ShiftLeft(PyInt(a), 24), ShiftLeft(PyInt(b), 16)),
                ShiftLeft(PyInt(g), 8)), PyInt(r))

\* app.py:52
PackPixel(p) ==
    LET r == p[1] g == p[2] b == p[3] a == p[4] IN
    BitOr(BitOr(BitOr(ShiftLeft(PyInt(a), 24), ShiftLeft(PyInt(r), 16)),
                ShiftLeft(PyInt(g), 8)), PyInt(b))

\* app.py:49-53
Pack(img) == LET arr == GetData(img) IN [k \in 1..Len(arr) |-> PackPixel(arr[k])]

(* ----------------------------- base_repr ----------------------------- *)
DIGITS == <<"0", "1", "2", "3", "4", "5", "6", "7", "8", "9", "A", "B", "C", "D",
            "E", "F", "G", "H", "I", "J", "K", "L", "M", "N", "O", "P", "Q", "R",
            "S", "T", "U", "V", "W", "X", "Y", "Z">>

\* num // base and num % base on limbs.
DivMod(v, base) ==
    LET mid == (v.hi % base) * Limb + v.lo IN
    [q |-> [hi |-> v.hi \div base, lo |-> mid \div base], r |-> mid % base]

\* The while loop of numpy.base_repr: digits least significant first.
RECURSIVE ReprDigits(_, _)
ReprDigits(num, base) ==
    IF IsZero(num) THEN <<>>
    ELSE LET dm == DivMod(num, base) IN <<DIGITS[dm.r + 1]>> \o ReprDigits(dm.q, base)

RECURSIVE Reversed(_)
Reversed(s) == IF s = <<>> THEN <<>> ELSE Reversed(Tail(s)) \o <<Head(s)>>

\* Mutant of base_repr: the digits are not reversed.
base_repr_unreversed(number, base) ==
    LET res == ReprDigits(number, base) IN IF res = <<>> THEN <<"0">> ELSE res

\* numpy.base_repr(number, base) of a non-negative number, as characters.
base_repr(number, base) ==
    LET res == ReprDigits(number, base) IN
    Reversed(IF res = <<>> THEN <<"0">> ELSE res)

\* " ".join(tokens), as characters.
RECURSIVE Join(_)
Join(tokens) ==
    IF tokens = <<>> THEN <<>>
    ELSE IF Len(tokens) = 1 THEN tokens[1]
    ELSE tokens[1] \o <<" ">> \o Join(Tail(tokens))

(* ------------------------- functools.lru_cache ----------------------- *)
\* A cache is the sequence of its entries [key, value], least recently
\* used first.
CacheKeys(cache) == {cache[k].key : k \in 1..Len(cache)}

CacheHas(cache, key) == key \in CacheKeys(cache)

CacheGet(cache, key) == (CHOOSE k \in 1..Len(cache) : cache[k].key = key)

\* Mutant of lru_hit: a hit does not refresh the entry's recency.
lru_hit_noRefresh(cache, key) == cache

\* A hit moves the entry to the most recently used end.
lru_hit(cache, key) ==
    LET k == CacheGet(cache, key) IN
    SubSeq(cache, 1, k - 1) \o SubSeq(cache, k + 1, Len(cache)) \o <<cache[k]>>

\* A miss whose call returned: the result is stored, and the least
\* recently used entry leaves a full cache.
lru_store(cache, maxsize, key, value) ==
    IF maxsize = 0 THEN cache
    ELSE IF Len(cache) >= maxsize
    THEN Tail(cache) \o <<[key |-> key, value |-> value]>>
    ELSE Append(cache, [key |-> key, value |-> value])

\* Mutant of lru_store_after_call: the result is stored without looking
\* whether the key was added while the call ran.
lru_store_unchecked(cache, maxsize, key, value) ==
    IF maxsize = 0 THEN cache
    ELSE IF Len(cache) >= maxsize
    THEN Tail(cache) \o <<[key |-> key, value |-> value]>>
    ELSE Append(cache, [key |-> key, value |-> value])

\* The end of a miss when other threads ran during the call: under the
\* cache's lock, a key that was added meanwhile is left as it is and the
\* result is only returned; otherwise the result is stored.
lru_store_after_call(cache, maxsize, key, value) ==
    IF CacheHas(cache, key) THEN cache ELSE lru_store(cache, maxsize, key, value)

(* ---------------------------- fetch_picture -------------------------- *)
\* What requests.get, raise_for_status and Image.open(...).convert("RGBA")
\* of one call produce: a decoded image or a raised exception.
SOURCES == {Uniform(2, 2, RED), Uniform(1, 2, SEMI)}

NET_ERRORS == {"HTTPError", "ConnectTimeout", "ConnectionError",
               "TooManyRedirects", "UnidentifiedImageError"}

NET == {Return(img) : img \in SOURCES} \cup {Raise(e) : e \in NET_ERRORS}

\* The classes an exception is an instance of.
Bases(exc) ==
    CASE exc = "HTTPError" -> {"HTTPError", "RequestException"}
      [] exc = "ConnectTimeout" ->
             {"ConnectTimeout", "ConnectionError", "Timeout", "RequestException"}
      [] exc = "ConnectionError" -> {"ConnectionError", "RequestException"}
      [] exc = "TooManyRedirects" -> {"TooManyRedirects", "RequestException"}
      [] exc = "UnidentifiedImageError" -> {"UnidentifiedImageError", "OSError"}
      [] OTHER -> {exc}

\* str(exception)
Str(exc) ==
    CASE exc = "HTTPError" -> "404 Client Error"
      [] exc = "UnidentifiedImageError" -> "cannot identify image file"
      [] OTHER -> exc

\* Mutant of fetch_picture: the outcome of a failed call is memoised too.
fetch_picture_memoFailure(cache, img_url, net) ==
    IF CacheHas(cache, img_url)
    THEN [cache |-> lru_hit(cache, img_url),
          out |-> cache[CacheGet(cache, img_url)].value,
          trace |-> {"fetch_picture"}]
    ELSE [cache |-> lru_store(cache, FETCH_CACHE_SIZE, img_url, net),
          out |-> net,
          trace |-> {"fetch_picture", "GET"}]

\* Mutant of fetch_picture: no lookup, every call goes to the network.
fetch_picture_alwaysGet(cache, img_url, net) ==
    LET rest == SelectSeq(cache, LAMBDA e : e.key # img_url) IN
    [cache |-> IF net.ok THEN lru_store(rest, FETCH_CACHE_SIZE, img_url, net.val)
               ELSE cache,
     out |-> net,
     trace |-> {"fetch_picture", "GET"}]

\* Mutant of fetch_picture: room for the result is made before the call,
\* so a failed call has already evicted the least recently used entry.
fetch_picture_evictFirst(cache, img_url, net) ==
    IF CacheHas(cache, img_url)
    THEN [cache |-> lru_hit(cache, img_url),
          out |-> Return(cache[CacheGet(cache, img_url)].value),
          trace |-> {"fetch_picture"}]
    ELSE [cache |-> IF net.ok
                    THEN lru_store(cache, FETCH_CACHE_SIZE, img_url, net.val)
                    ELSE IF Len(cache) >= FETCH_CACHE_SIZE THEN Tail(cache) ELSE cache,
          out |-> net,
          trace |-> {"fetch_picture", "GET"}]

\* Mutant of fetch_picture: a hit asks the network again and returns the
\* image it sends, the entry being kept as it was.
fetch_picture_revalidate(cache, img_url, net) ==
    IF CacheHas(cache, img_url)
    THEN [cache |-> lru_hit(cache, img_url),
          out |-> IF net.ok THEN net ELSE Return(cache[CacheGet(cache, img_url)].value),
          trace |-> {"fetch_picture"}]
    ELSE [cache |-> IF net.ok
                    THEN lru_store(cache, FETCH_CACHE_SIZE, img_url, net.val)
                    ELSE cache,
          out |-> net,
          trace |-> {"fetch_picture", "GET"}]

\* fetch_picture under lru_cache(maxsize=FETCH_CACHE_SIZE): the cache after
\* the call, the call's outcome and the functions that ran.
fetch_picture(cache, img_url, net) ==
    IF CacheHas(cache, img_url)
    THEN [cache |-> lru_hit(cache, img_url),
          out |-> Return(cache[CacheGet(cache, img_url)].value),
          trace |-> {"fetch_picture"}]
    ELSE [cache |-> IF net.ok
                    THEN lru_store(cache, FETCH_CACHE_SIZE, img_url, net.val)
                    ELSE cache,
          out |-> net,
          trace |-> {"fetch_picture", "GET"}]

(* ---------------------------- handle_picture ------------------------- *)
\* Mutant of RenderKey: the aspect flag is not part of the key.
RenderKey_noAspect(img_url, width, height, keep_aspect_ratio) ==
    <<img_url, width, height, FALSE>>

RenderKey(img_url, width, height, keep_aspect_ratio) ==
    <<img_url, width, height, keep_aspect_ratio>>

\* app.py:46-48
Resized(img, width, height, keep_aspect_ratio) ==
    IF ~keep_aspect_ratio THEN Resize(img, width, height)
    ELSE resize_to_keep_aspect_ratio(img, width, height)

\* app.py:46-53, the body of handle_picture after the fetch: the packed
\* array, or the exception of the resize.
Render(img, width, height, keep_aspect_ratio) ==
    LET resized == Resized(img, width, height, keep_aspect_ratio) IN
    IF resized.ok THEN Return(Pack(resized.val)) ELSE resized

\* Render over the inputs of the model, computed once.
Dims == -1..MaxDim

RenderTable ==
    {<<x, Render(x[1], x[2], x[3], x[4])>> : x \in SOURCES \X Dims \X Dims \X BOOLEAN}

Rendered(img, width, height, keep_aspect_ratio) ==
    (CHOOSE e \in RenderTable : e[1] = <<img, width, height, keep_aspect_ratio>>)[2]

\* Mutant of handle_picture: a hit also counts as a use of the URL's fetch
\* entry.
handle_picture_linked(fcache, rcache, img_url, width, height, keep_aspect_ratio, net) ==
    LET key == RenderKey(img_url, width, height, keep_aspect_ratio) IN
    IF CacheHas(rcache, key)
    THEN [fetchCache |-> IF CacheHas(fcache, img_url) THEN lru_hit(fcache, img_url)
                         ELSE fcache,
          renderCache |-> lru_hit(rcache, key),
          out |-> Return(rcache[CacheGet(rcache, key)].value),
          trace |-> {"handle_picture"}]
    ELSE LET f == fetch_picture(fcache, img_url, net) IN
         IF ~f.out.ok
         THEN [fetchCache |-> f.cache, renderCache |-> rcache, out |-> f.out,
               trace |-> f.trace \cup {"handle_picture"}]
         ELSE LET new_arr == Rendered(f.out.val, width, height, keep_aspect_ratio) IN
              IF ~new_arr.ok
              THEN [fetchCache |-> f.cache, renderCache |-> rcache, out |-> new_arr,
                    trace |-> f.trace \cup {"handle_picture", "resize"}]
              ELSE [fetchCache |-> f.cache,
                    renderCache |-> lru_store(rcache, HANDLE_CACHE_SIZE, key, new_arr.val),
                    out |-> new_arr,
                    trace |-> f.trace \cup {"handle_picture", "resize", "pack"}]

\* Mutant of handle_picture: a hit whose URL is resident in the fetch cache
\* is rendered again from the resident image.
handle_picture_rerenderOnHit(fcache, rcache, img_url, width, height, keep_aspect_ratio, net) ==
    LET key == RenderKey(img_url, width, height, keep_aspect_ratio)
        again == Rendered(fcache[CacheGet(fcache, img_url)].value, width, height,
                          keep_aspect_ratio)
    IN
    IF CacheHas(rcache, key)
    THEN [fetchCache |-> fcache,
          renderCache |-> lru_hit(rcache, key),
          out |-> IF CacheHas(fcache, img_url) THEN again
                  ELSE Return(rcache[CacheGet(rcache, key)].value),
          trace |-> {"handle_picture"}]
    ELSE LET f == fetch_picture(fcache, img_url, net) IN
         IF ~f.out.ok
         THEN [fetchCache |-> f.cache, renderCache |-> rcache, out |-> f.out,
               trace |-> f.trace \cup {"handle_picture"}]
         ELSE LET new_arr == Rendered(f.out.val, width, height, keep_aspect_ratio) IN
              IF ~new_arr.ok
              THEN [fetchCache |-> f.cache, renderCache |-> rcache, out |-> new_arr,
                    trace |-> f.trace \cup {"handle_picture", "resize"}]
              ELSE [fetchCache |-> f.cache,
                    renderCache |-> lru_store(rcache, HANDLE_CACHE_SIZE, key, new_arr.val),
                    out |-> new_arr,
                    trace |-> f.trace \cup {"handle_picture", "resize", "pack"}]

\* handle_picture under lru_cache(maxsize=HANDLE_CACHE_SIZE): both caches
\* after the call, the call's outcome and the functions that ran.
handle_picture(fcache, rcache, img_url, width, height, keep_aspect_ratio, net) ==
    LET key == RenderKey(img_url, width, height, keep_aspect_ratio) IN
    IF CacheHas(rcache, key)
    THEN [fetchCache |-> fcache,
          renderCache |-> lru_hit(rcache, key),
          out |-> Return(rcache[CacheGet(rcache, key)].value),
          trace |-> {"handle_picture"}]
    ELSE LET f == fetch_picture(fcache, img_url, net) IN
         IF ~f.out.ok
         THEN [fetchCache |-> f.cache, renderCache |-> rcache, out |-> f.out,
               trace |-> f.trace \cup {"handle_picture"}]
         ELSE LET new_arr == Rendered(f.out.val, width, height, keep_aspect_ratio) IN
              IF ~new_arr.ok
              THEN [fetchCache |-> f.cache, renderCache |-> rcache, out |-> new_arr,
                    trace |-> f.trace \cup {"handle_picture", "resize"}]
              ELSE [fetchCache |-> f.cache,
                    renderCache |-> lru_store(rcache, HANDLE_CACHE_SIZE, key, new_arr.val),
                    out |-> new_arr,
                    trace |-> f.trace \cup {"handle_picture", "resize", "pack"}]

(* -------------------------- get_picutre_pixels ----------------------- *)
\* A text is the sequence of its pieces: single characters for the tokens,
\* whole phrases for the messages.
error_message(message) == <<"!">> \o message

\* raise HTTPException(400, detail)
HTTPException(status, detail) == [status |-> status, body |-> <<detail>>]

\* A returned str under response_class=PlainTextResponse.
PlainTextResponse(body) == [status |-> 200, body |-> body]

\* An exception no handler catches.
InternalServerError == [status |-> 500, body |-> <<"Internal Server Error">>]

\* Mutant of Validate: the capacity is checked before the start index.
Validate_capFirst(i, cap, width, height) ==
    IF cap <= 0 THEN HTTPException(400, "Buffer capacity is less or equal zero")
    ELSE IF i < 0 THEN HTTPException(400, "Start index less than zero")
    ELSE IF i >= width * height
    THEN HTTPException(400, "Start index is more than width * height")
    ELSE [status |-> 0, body |-> <<>>]

\* app.py:62-67: the response of the first failing check, or "valid".
Validate(i, cap, width, height) ==
    IF i < 0 THEN HTTPException(400, "Start index less than zero")
    ELSE IF cap <= 0 THEN HTTPException(400, "Buffer capacity is less or equal zero")
    ELSE IF i >= width * height
    THEN HTTPException(400, "Start index is more than width * height")
    ELSE [status |-> 0, body |-> <<>>]

\* Mutant of Except: the clause for UnidentifiedImageError is missing.
Except_noImageClause(exc) ==
    IF "HTTPError" \in Bases(exc)
    THEN PlainTextResponse(error_message(
             <<"HTTP error while requesting image url: ", Str(exc)>>))
    ELSE IF "Timeout" \in Bases(exc)
    THEN PlainTextResponse(error_message(<<"Timeout while requesting image url">>))
    ELSE IF "ConnectionError" \in Bases(exc)
    THEN PlainTextResponse(error_message(<<"Connection error while requesting image url">>))
    ELSE IF "RequestException" \in Bases(exc)
    THEN PlainTextResponse(error_message(<<"Unknown error while requesting image url">>))
    ELSE InternalServerError

\* app.py:71-80: the except clauses, first match first.
Except(exc) ==
    IF "HTTPError" \in Bases(exc)
    THEN PlainTextResponse(error_message(
             <<"HTTP error while requesting image url: ", Str(exc)>>))
    ELSE IF "Timeout" \in Bases(exc)
    THEN PlainTextResponse(error_message(<<"Timeout while requesting image url">>))
    ELSE IF "ConnectionError" \in Bases(exc)
    THEN PlainTextResponse(error_message(<<"Connection error while requesting image url">>))
    ELSE IF "RequestException" \in Bases(exc)
    THEN PlainTextResponse(error_message(<<"Unknown error while requesting image url">>))
    ELSE IF "UnidentifiedImageError" \in Bases(exc)
    THEN PlainTextResponse(error_message(<<"Unidentified image: ", Str(exc)>>))
    ELSE InternalServerError

\* Mutant of Slice: the window is padded with zeros up to cap values.
Slice_padded(img_arr, i, cap) ==
    [k \in 1..cap |-> IF i + k <= Len(img_arr) THEN img_arr[i + k] ELSE PyInt(0)]

\* img_arr[i:(i + cap)] for 0 <= i and 0 < cap.
Slice(img_arr, i, cap) ==
    SubSeq(img_arr, i + 1, IF i + cap < Len(img_arr) THEN i + cap ELSE Len(img_arr))

\* app.py:82-83
Encode(img_arr, i, cap) ==
    LET buf == Slice(img_arr, i, cap) IN
    Join([k \in 1..Len(buf) |-> base_repr(buf[k], 36)])

(* ------------------------------- state ------------------------------- *)
VARIABLES
    fetchCache,    \* fetch_picture's lru_cache
    renderCache,   \* handle_picture's lru_cache
    last,          \* the last request, its response, the functions it ran and
                   \* the exception handle_picture raised
    fetchUse,      \* history: rank of each resident URL's last access
    renderUse,     \* history: rank of each resident render key's last access
    warm,          \* history: the sequences returned for each render key
                   \* since its URL's fetch entry became resident
    fit,           \* a call of resize_to_keep_aspect_ratio: arguments, the
                   \* scaled image, the paste position and the result
    threads        \* the worker threads' requests in progress

vars == <<fetchCache, renderCache, last, fetchUse, renderUse, warm, fit, threads>>

URLS == {"a", "b", "c"}
Starts == -1..(MaxDim * MaxDim)
Caps == -1..(MaxDim * MaxDim + 1)

Request(img_url, i, cap, width, height, keep_aspect_ratio) ==
    [img_url |-> img_url, i |-> i, cap |-> cap, width |-> width, height |-> height,
     keep_aspect_ratio |-> keep_aspect_ratio]

NoRequest ==
    [req |-> Request("", 0, 0, 0, 0, FALSE), status |-> 0, body |-> <<>>, trace |-> {},
     exc |-> "none"]

\* History of accesses, as a set of <<key, rank>>: the accessed key becomes
\* the most recent one, the keys that left the cache are forgotten, ranks
\* are renumbered from 1 (oldest).
RankOf(use, key) == (CHOOSE p \in use : p[1] = key)[2]

Touch(use, resident, key) ==
    LET top == Cardinality(use) + 1
        raw(k) == IF k = key THEN top ELSE RankOf(use, k)
    IN {<<k, Cardinality({j \in resident : raw(j) <= raw(k)})>> : k \in resident}

\* History of returned sequences, as a set of <<key, sequence, fresh>>: the
\* sequence handle_picture last returned for the key while the URL's fetch
\* entry has stayed resident, fresh telling that it was computed from that
\* entry. h is what handle_picture did for key.
Track(history, h, key) ==
    LET kept == {p \in history :
                    CacheHas(h.fetchCache, p[1][1]) /\ (p[1] # key \/ ~h.out.ok)}
        fresh == \/ "resize" \in h.trace
                 \/ \E p \in history : p[1] = key /\ p[3]
    IN IF h.out.ok /\ CacheHas(h.fetchCache, key[1])
       THEN kept \cup {<<key, h.out.val, fresh>>}
       ELSE kept

Cold ==
    [fetchCache |-> <<>>, renderCache |-> <<>>, fetchUse |-> {}, renderUse |-> {},
     warm |-> {}]

\* No call of resize_to_keep_aspect_ratio observed.
NoFit ==
    [called |-> FALSE, img |-> ImageNew(0, 0), desired_width |-> 0, desired_height |-> 0,
     scaled |-> Raise("none"), at |-> <<0, 0>>, out |-> Raise("none")]

\* The threads of the server's pool; a thread holds its request, where it
\* is in the handler, the image fetch_picture returned to it, whether each
\* of the two cached functions missed and whether it missed while another
\* thread was between its own miss and its store for the same key (a race).
Threads == {"t1", "t2"}

IdleThread ==
    [pc |-> "idle", req |-> NoRequest.req, img |-> ImageNew(0, 0),
     fetchMiss |-> FALSE, renderMiss |-> FALSE, fetchRace |-> FALSE,
     renderRace |-> FALSE, out |-> "none"]

Idle == [t \in Threads |-> IdleThread]

Init ==
    /\ fetchCache = Cold.fetchCache
    /\ renderCache = Cold.renderCache
    /\ last = NoRequest
    /\ fetchUse = Cold.fetchUse
    /\ renderUse = Cold.renderUse
    /\ warm = Cold.warm
    /\ fit = NoFit
    /\ threads = Idle

\* Mutant of get_picutre_pixels: the picture is handled first and the
\* parameters are validated afterwards.
get_picutre_pixels_lateCheck(st, img_url, i, cap, width, height, keep_aspect_ratio, net) ==
    LET req == Request(img_url, i, cap, width, height, keep_aspect_ratio)
        invalid == Validate(i, cap, width, height)
        h == handle_picture(st.fetchCache, st.renderCache, img_url, width, height,
                            keep_aspect_ratio, net)
        resp == IF invalid.status # 0 THEN invalid
                ELSE IF h.out.ok THEN PlainTextResponse(Encode(h.out.val, i, cap))
                ELSE Except(h.out.exc)
        key == RenderKey(img_url, width, height, keep_aspect_ratio)
    IN [fetchCache |-> h.fetchCache,
        renderCache |-> h.renderCache,
        fetchUse |-> IF "fetch_picture" \in h.trace /\ CacheHas(h.fetchCache, img_url)
                     THEN Touch(st.fetchUse, CacheKeys(h.fetchCache), img_url)
                     ELSE st.fetchUse,
        renderUse |-> IF CacheHas(h.renderCache, key)
                      THEN Touch(st.renderUse, CacheKeys(h.renderCache), key)
                      ELSE st.renderUse,
        warm |-> Track(st.warm, h, key),
        last |-> [req |-> req, status |-> resp.status, body |-> resp.body,
                  trace |-> h.trace,
                  exc |-> IF h.out.ok \/ invalid.status # 0 THEN "none" ELSE h.out.exc]]

\* GET /picpix, the whole handler from the state st: the state after it,
\* net being what the network returns to a GET issued by this request.
get_picutre_pixels(st, img_url, i, cap, width, height, keep_aspect_ratio, net) ==
    LET req == Request(img_url, i, cap, width, height, keep_aspect_ratio)
        invalid == Validate(i, cap, width, height)
    IN
    IF invalid.status # 0
    THEN [fetchCache |-> st.fetchCache, renderCache |-> st.renderCache,
          fetchUse |-> st.fetchUse, renderUse |-> st.renderUse, warm |-> st.warm,
          last |-> [req |-> req, status |-> invalid.status, body |-> invalid.body,
                    trace |-> {}, exc |-> "none"]]
    ELSE LET h == handle_picture(st.fetchCache, st.renderCache, img_url, width, height,
                                 keep_aspect_ratio, net)
             resp == IF h.out.ok
                     THEN PlainTextResponse(Encode(h.out.val, i, cap))
                     ELSE Except(h.out.exc)
             key == RenderKey(img_url, width, height, keep_aspect_ratio)
         IN [fetchCache |-> h.fetchCache,
             renderCache |-> h.renderCache,
             fetchUse |-> IF "fetch_picture" \in h.trace /\ CacheHas(h.fetchCache, img_url)
                          THEN Touch(st.fetchUse, CacheKeys(h.fetchCache), img_url)
                          ELSE st.fetchUse,
             renderUse |-> IF CacheHas(h.renderCache, key)
                           THEN Touch(st.renderUse, CacheKeys(h.renderCache), key)
                           ELSE st.renderUse,
             warm |-> Track(st.warm, h, key),
             last |-> [req |-> req, status |-> resp.status, body |-> resp.body,
                       trace |-> h.trace,
                       exc |-> IF h.out.ok THEN "none" ELSE h.out.exc]]

Current ==
    [fetchCache |-> fetchCache, renderCache |-> renderCache, fetchUse |-> fetchUse,
     renderUse |-> renderUse, warm |-> warm]

\* Requests served one after the other, each drawn from requests, the
\* network answering a GET with one of nets; the history of returned
\* sequences is kept when tracked.
Served(requests, nets, tracked) ==
    \E req \in requests, net \in nets :
        \E post \in {get_picutre_pixels(Current, req.img_url, req.i, req.cap, req.width,
                                        req.height, req.keep_aspect_ratio, net)} :
            /\ fetchCache' = post.fetchCache
            /\ renderCache' = post.renderCache
            /\ fetchUse' = post.fetchUse
            /\ renderUse' = post.renderUse
            /\ warm' = IF tracked THEN post.warm ELSE warm
            /\ last' = post.last
            /\ UNCHANGED <<fit, threads>>

Serve(requests, nets) == Served(requests, nets, FALSE)

\* Sequences of requests over three URLs at a few sizes: the caches fill,
\* hit and evict.
CacheRequests == {Request(u, i, 1, 2, 2, k) : u \in URLS, i \in {-1, 0}, k \in BOOLEAN}

CacheNet == {Return(img) : img \in SOURCES} \cup {Raise("ConnectionError")}

Next == Serve(CacheRequests, CacheNet)

Spec == Init /\ [][Next]_vars

\* One request of any shape on a cold service or after one earlier render.
WindowRequests ==
    {Request("a", i, cap, w, h, k) :
        i \in Starts, cap \in Caps, w \in Dims, h \in Dims, k \in BOOLEAN}

WarmRequests ==
    {Request("a", 0, 1, w, h, k) : w \in 1..MaxDim, h \in 1..MaxDim, k \in BOOLEAN}

InitWindow ==
    /\ last = NoRequest
    /\ fit = NoFit
    /\ threads = Idle
    /\ \E st \in {Cold} \cup
                 {get_picutre_pixels(Cold, req.img_url, req.i, req.cap, req.width,
                                     req.height, req.keep_aspect_ratio, Return(img)) :
                      req \in WarmRequests, img \in SOURCES} :
         /\ fetchCache = st.fetchCache
         /\ renderCache = st.renderCache
         /\ fetchUse = st.fetchUse
         /\ renderUse = st.renderUse
         /\ warm = Cold.warm

NextWindow == last = NoRequest /\ Serve(WindowRequests, NET)

SpecWindow == InitWindow /\ [][NextWindow]_vars

\* Sequences of successful requests with the history of what each key
\* returned: URL a in both resize modes, b and c to evict it.
TrackedRequests ==
    {Request("a", 0, 4, 2, 2, k) : k \in BOOLEAN} \cup
    {Request(u, 0, 4, 2, 2, FALSE) : u \in {"b", "c"}}

TrackedNet == {Return(img) : img \in SOURCES}

NextTracked == Served(TrackedRequests, TrackedNet, TRUE)

SpecTracked == Init /\ [][NextTracked]_vars

\* resize_to_keep_aspect_ratio alone: one call on a source image and a
\* desired size of sides up to MaxSide.
MaxSide == 4

Fit(img, desired_width, desired_height) ==
    LET scaled == Scaled(img, desired_width, desired_height) IN
    [called |-> TRUE, img |-> img, desired_width |-> desired_width,
     desired_height |-> desired_height, scaled |-> scaled,
     at |-> IF scaled.ok THEN Offset(img, scaled.val, desired_width, desired_height)
            ELSE <<0, 0>>,
     out |-> resize_to_keep_aspect_ratio(img, desired_width, desired_height)]

NextFit ==
    /\ ~fit.called
    /\ \E sw \in 1..MaxSide, sh \in 1..MaxSide, p \in {RED, SEMI},
          dw \in 1..MaxSide, dh \in 1..MaxSide :
         fit' = Fit(Uniform(sw, sh, p), dw, dh)
    /\ UNCHANGED <<fetchCache, renderCache, last, fetchUse, renderUse, warm, threads>>

SpecFit == Init /\ [][NextFit]_vars

\* Concurrent requests: each thread runs the handler step by step, the
\* other threads running between its cache lookups, its network call and
\* its stores. A lookup and a store are atomic (the cache's lock).
ThreadRequests == {Request(u, i, 1, 2, 2, FALSE) : u \in URLS, i \in {-1, 0}}

ThreadNet == {Return(Uniform(2, 2, RED)), Raise("ConnectionError")}

Goto(t, pc, changes) ==
    threads' = [threads EXCEPT ![t] = [changes EXCEPT !.pc = pc]]

\* The threads other than t that are inside a call of the function whose
\* program points are pcs, for the same URL as t.
Rivals(t, pcs) ==
    {o \in Threads \ {t} :
        threads[o].pc \in pcs /\ threads[o].req.img_url = threads[t].req.img_url}

\* Thread t misses at a lookup and goes to pc; it and its rivals are
\* marked as racing.
Miss(t, pc, missed, rivals) ==
    threads' = [o \in Threads |->
                   IF o = t
                   THEN [missed EXCEPT !.pc = pc,
                                       !.fetchRace = @ \/ (pc = "GET" /\ rivals # {}),
                                       !.renderRace = @ \/ (pc # "GET" /\ rivals # {})]
                   ELSE IF o \in rivals
                   THEN [threads[o] EXCEPT !.fetchRace = @ \/ pc = "GET",
                                           !.renderRace = @ \/ pc # "GET"]
                   ELSE threads[o]]

\* app.py:61-67: the request arrives and is validated.
Begin(t) ==
    /\ threads[t].pc = "idle"
    /\ \E req \in ThreadRequests :
         LET invalid == Validate(req.i, req.cap, req.width, req.height)
             th == [IdleThread EXCEPT !.req = req]
         IN IF invalid.status # 0
            THEN Goto(t, "done", [th EXCEPT !.out = "invalid"])
            ELSE Goto(t, "handle_picture", th)
    /\ UNCHANGED <<fetchCache, renderCache>>

\* app.py:43-44, 70: the lookup of handle_picture's cache.
LookupRender(t) ==
    LET th == threads[t] key == RenderKey(th.req.img_url, th.req.width, th.req.height,
                                      th.req.keep_aspect_ratio) IN
    /\ th.pc = "handle_picture"
    /\ IF CacheHas(renderCache, key)
       THEN /\ renderCache' = lru_hit(renderCache, key)
            /\ Goto(t, "done", [th EXCEPT !.out = "ok"])
       ELSE /\ renderCache' = renderCache
            /\ Miss(t, "fetch_picture", [th EXCEPT !.renderMiss = TRUE],
                    Rivals(t, {"fetch_picture", "GET", "render"}))
    /\ UNCHANGED fetchCache

\* app.py:32-33, 45: the lookup of fetch_picture's cache.
LookupFetch(t) ==
    LET th == threads[t] url == th.req.img_url IN
    /\ th.pc = "fetch_picture"
    /\ IF CacheHas(fetchCache, url)
       THEN /\ fetchCache' = lru_hit(fetchCache, url)
            /\ Goto(t, "render", [th EXCEPT !.img = fetchCache[CacheGet(fetchCache, url)].value])
       ELSE /\ fetchCache' = fetchCache
            /\ Miss(t, "GET", [th EXCEPT !.fetchMiss = TRUE], Rivals(t, {"GET"}))
    /\ UNCHANGED renderCache

\* app.py:38-40: the network call returns; its image is stored unless the
\* URL was stored meanwhile, its exception ends the request in band.
Get(t) ==
    LET th == threads[t] url == th.req.img_url IN
    /\ th.pc = "GET"
    /\ \E net \in ThreadNet :
         IF net.ok
         THEN /\ fetchCache' = lru_store_after_call(fetchCache, FETCH_CACHE_SIZE, url,
                                                    net.val)
              /\ Goto(t, "render", [th EXCEPT !.img = net.val])
         ELSE /\ fetchCache' = fetchCache
              /\ Goto(t, "done", [th EXCEPT !.out = net.exc])
    /\ UNCHANGED renderCache

\* app.py:46-53: the resize and the packing, then the store of the array
\* unless the key was stored meanwhile.
RenderAndStore(t) ==
    LET th == threads[t]
        req == th.req
        new_arr == Rendered(th.img, req.width, req.height, req.keep_aspect_ratio)
    IN
    /\ th.pc = "render"
    /\ IF new_arr.ok
       THEN /\ renderCache' = lru_store_after_call(renderCache, HANDLE_CACHE_SIZE,
                                                   RenderKey(req.img_url, req.width, req.height,
                                                             req.keep_aspect_ratio), new_arr.val)
            /\ Goto(t, "done", [th EXCEPT !.out = "ok"])
       ELSE /\ renderCache' = renderCache
            /\ Goto(t, "done", [th EXCEPT !.out = new_arr.exc])
    /\ UNCHANGED fetchCache

\* app.py:82-83: the response is sent and the thread is free again.
Finish(t) ==
    /\ threads[t].pc = "done"
    /\ threads' = [threads EXCEPT ![t] = IdleThread]
    /\ UNCHANGED <<fetchCache, renderCache>>

NextThreads ==
    /\ \E t \in Threads :
         \/ Begin(t)
         \/ LookupRender(t)
         \/ LookupFetch(t)
         \/ Get(t)
         \/ RenderAndStore(t)
         \/ Finish(t)
    /\ UNCHANGED <<last, fetchUse, renderUse, warm, fit>>

SpecThreads == Init /\ [][NextThreads]_vars

(* ------------------------------ claims ------------------------------- *)
Req == last.req

\* The three checks of the window service, as the specification lists them.
Passes(req) == req.i >= 0 /\ req.cap > 0 /\ req.i < req.width * req.height

\* The last request was answered with tokens.
Success == last.status = 200 /\ last.exc = "none"

LastKey == <<Req.img_url, Req.width, Req.height, Req.keep_aspect_ratio>>

Entry(cache, key) == CHOOSE e \in {cache[k] : k \in 1..Len(cache)} : e.key = key

\* text.split(" ")
RECURSIVE Split(_)
Split(text) ==
    IF \E k \in 1..Len(text) : text[k] = " "
    THEN LET k == CHOOSE j \in 1..Len(text) :
                      text[j] = " " /\ \A m \in 1..(j - 1) : text[m] # " "
         IN <<SubSeq(text, 1, k - 1)>> \o Split(SubSeq(text, k + 1, Len(text)))
    ELSE <<text>>

IsDigit(c) == \E d \in 1..36 : DIGITS[d] = c

DigitValue(c) == (CHOOSE d \in 1..36 : DIGITS[d] = c) - 1

\* The number a base-36 token denotes.
RECURSIVE Value36(_)
Value36(token) ==
    IF token = <<>> THEN PyInt(0)
    ELSE LET v == Value36(SubSeq(token, 1, Len(token) - 1))
             lo == v.lo * 36 + DigitValue(token[Len(token)])
         IN [hi |-> v.hi * 36 + lo \div Limb, lo |-> lo % Limb]

Canonical(token) ==
    /\ token # <<>>
    /\ \A k \in 1..Len(token) : IsDigit(token[k])
    /\ Len(token) > 1 => token[1] # "0"

Min(a, b) == IF a < b THEN a ELSE b

\* C1: the checks i < 0, cap <= 0, i >= width*height are applied in this
\* order and the first that fails decides the response: status 400 with
\* that check's own message, also when several checks fail at once.
C1_ValidationOrder ==
    last # NoRequest =>
        /\ Req.i < 0 =>
              last.status = 400 /\ last.body = <<"Start index less than zero">>
        /\ Req.i >= 0 /\ Req.cap <= 0 =>
              /\ last.status = 400
              /\ last.body = <<"Buffer capacity is less or equal zero">>
        /\ Req.i >= 0 /\ Req.cap > 0 /\ Req.i >= Req.width * Req.height =>
              /\ last.status = 400
              /\ last.body = <<"Start index is more than width * height">>
        /\ Passes(Req) => last.status # 400

\* A request failing all three checks at once was rejected by the first.
C1_Witness ==
    /\ Req.i < 0 /\ Req.cap <= 0 /\ Req.i >= Req.width * Req.height
    /\ last.status = 400
    /\ last.body = <<"Start index less than zero">>

\* C2: a request that passes validation and whose render succeeds is
\* answered with exactly min(cap, width*height - i) tokens (so exactly one
\* for i = width*height - 1), and i = width*height is rejected.
C2_WindowLength ==
    /\ Success =>
          /\ Passes(Req)
          /\ Len(Split(last.body)) = Min(Req.cap, Req.width * Req.height - Req.i)
          /\ Req.i = Req.width * Req.height - 1 => Len(Split(last.body)) = 1
    /\ last # NoRequest /\ Req.i >= 0 /\ Req.cap > 0 /\ Req.i = Req.width * Req.height =>
          /\ last.status = 400
          /\ last.body = <<"Start index is more than width * height">>

\* A window that runs past the end of the sequence was cut short.
C2_Witness ==
    /\ Success
    /\ Req.i > 0
    /\ Req.i + Req.cap > Req.width * Req.height
    /\ Len(Split(last.body)) = Req.width * Req.height - Req.i
    /\ Len(Split(last.body)) > 1

\* C3: the k-th token of a successful response is the base-36 numeral
\* (digits 0-9 then A-Z, no leading zeros) of the packed value at index
\* i+k of the rendered sequence, tokens being separated by exactly one
\* space; a 2x2 opaque red source served with (0, 4, 2, 2, no aspect)
\* gives 4 tokens that all denote 0xFFFF0000.
C3_Encoding ==
    Success =>
        LET tokens == Split(last.body)
            seq == Entry(renderCache, LastKey).value
        IN /\ \A k \in 1..Len(tokens) :
                 /\ Canonical(tokens[k])
                 /\ Req.i + k <= Len(seq)
                 /\ Value36(tokens[k]) = seq[Req.i + k]
           /\ (/\ Req = Request("a", 0, 4, 2, 2, FALSE)
               /\ Entry(fetchCache, "a").value = Uniform(2, 2, RED))
              => /\ Len(tokens) = 4
                 /\ \A k \in 1..4 : Value36(tokens[k]) = [hi |-> 65535, lo |-> 0]

\* The red 2x2 example was served.
C3_Witness ==
    /\ Success
    /\ Req = Request("a", 0, 4, 2, 2, FALSE)
    /\ Entry(fetchCache, "a").value = Uniform(2, 2, RED)
    /\ Len(last.body) = 4 * 7 + 3

\* The phrase that names each error kind of the fetch.
KindPhrase(exc) ==
    CASE exc = "HTTPError" -> "HTTP error while requesting image url: "
      [] exc = "ConnectTimeout" -> "Timeout while requesting image url"
      [] exc = "ConnectionError" -> "Connection error while requesting image url"
      [] exc = "TooManyRedirects" -> "Unknown error while requesting image url"
      [] exc = "UnidentifiedImageError" -> "Unidentified image: "

\* C4: when a request passes validation and the render fails with a fetch
\* error of any kind, the response has the normal status 200 and a body
\* that begins with "!" and names the kind; a validation failure is never
\* reported in-band.
C4_InBandErrors ==
    /\ last.exc \in NET_ERRORS =>
          /\ Passes(Req)
          /\ last.status = 200
          /\ last.body[1] = "!"
          /\ last.body[2] = KindPhrase(last.exc)
    /\ (last # NoRequest /\ last.body[1] = "!") => Passes(Req) /\ last.exc \in NET_ERRORS

\* A connect timeout, both a Timeout and a ConnectionError, was reported as
\* a timeout, in-band.
C4_Witness ==
    /\ last.exc = "ConnectTimeout"
    /\ last.status = 200
    /\ last.body = <<"!", "Timeout while requesting image url">>

KeyOf(req) == <<req.img_url, req.width, req.height, req.keep_aspect_ratio>>

FetchFailed(l) == l.exc \in NET_ERRORS

\* C5, as amended: after a request for URL u ends in a fetch error, the
\* fetch cache holds no entry for u and the render cache none for the
\* request's key, and the next request for u that passes validation and is
\* not answered from the render cache performs a new network GET.
C5_FailureNotMemoised ==
    [][/\ FetchFailed(last') =>
             /\ ~CacheHas(fetchCache', last'.req.img_url)
             /\ ~CacheHas(renderCache', KeyOf(last'.req))
       /\ (/\ FetchFailed(last)
           /\ last'.req.img_url = last.req.img_url
           /\ Passes(last'.req)
           /\ ~CacheHas(renderCache, KeyOf(last'.req)))
          => "GET" \in last'.trace]_vars

\* C5, as stated: ... and the next request for the same URL (one that
\* passes validation) performs a new network GET.
C5_AsStated ==
    [][/\ FetchFailed(last') =>
             /\ ~CacheHas(fetchCache', last'.req.img_url)
             /\ ~CacheHas(renderCache', KeyOf(last'.req))
       /\ (/\ FetchFailed(last)
           /\ last'.req.img_url = last.req.img_url
           /\ Passes(last'.req))
          => "GET" \in last'.trace]_vars

\* A request has just ended in a fetch error for a URL of which another
\* render is still cached.
C5_Witness ==
    /\ FetchFailed(last)
    /\ "GET" \in last.trace
    /\ ~CacheHas(fetchCache, Req.img_url)
    /\ \E k \in 1..Len(renderCache) : renderCache[k].key[1] = Req.img_url

\* C6: while URL u's entry is resident in the fetch cache no request issues
\* a GET for u: every fetch_picture(u) is a hit that leaves the stored
\* image in place and renders from it; a GET for u happens only when u is
\* not resident, and a successful one makes u resident.
C6_FetchOncePerResidency ==
    [][LET r == last'.req
           u == r.img_url
       IN /\ CacheHas(fetchCache, u) =>
                /\ "GET" \notin last'.trace
                /\ "fetch_picture" \in last'.trace =>
                      /\ CacheHas(fetchCache', u)
                      /\ Entry(fetchCache', u).value = Entry(fetchCache, u).value
                      /\ last'.exc = "none" =>
                            Entry(renderCache', KeyOf(r)).value =
                                Rendered(Entry(fetchCache, u).value, r.width, r.height,
                                         r.keep_aspect_ratio).val
          /\ ("GET" \in last'.trace /\ ~FetchFailed(last')) =>
                ~CacheHas(fetchCache, u) /\ CacheHas(fetchCache', u)]_vars

\* A render was computed from a resident source image, without a GET.
C6_Witness ==
    /\ Success
    /\ {"fetch_picture", "pack"} \subseteq last.trace
    /\ "GET" \notin last.trace

Recomputed(l) == l.trace \cap {"fetch_picture", "GET", "resize", "pack"} # {}

UseKeys(use) == {p[1] : p \in use}

\* One cache over one step: at most maxsize entries; an entry leaves only
\* a full cache, only when a new key enters, and it is the entry whose last
\* access is the oldest.
EvictsLeastRecent(cache, cacheAfter, use, maxsize) ==
    /\ UseKeys(use) = CacheKeys(cache)
    /\ Len(cacheAfter) <= maxsize
    /\ Cardinality(CacheKeys(cache) \ CacheKeys(cacheAfter)) <= 1
    /\ \A k \in CacheKeys(cache) \ CacheKeys(cacheAfter) :
          /\ Len(cache) = maxsize
          /\ CacheKeys(cacheAfter) \ CacheKeys(cache) # {}
          /\ \A p \in use : RankOf(use, k) <= p[2]

\* C8: each cache evicts by least-recent use: the entry a successful miss
\* removes from a full cache is the one whose last access (insertion or
\* hit) is the oldest, and an access to a key that is not resident is a
\* miss that recomputes.
C8_LeastRecentlyUsed ==
    [][/\ EvictsLeastRecent(fetchCache, fetchCache', fetchUse, FETCH_CACHE_SIZE)
       /\ EvictsLeastRecent(renderCache, renderCache', renderUse, HANDLE_CACHE_SIZE)
       /\ (Passes(last'.req) /\ ~CacheHas(renderCache, KeyOf(last'.req)))
             => "fetch_picture" \in last'.trace
       /\ ("fetch_picture" \in last'.trace /\ ~CacheHas(fetchCache, last'.req.img_url))
             => "GET" \in last'.trace]_vars

\* Both caches are full after a miss in both, the render cache still holds
\* an entry of a URL the fetch cache evicted, and a URL fetched later has
\* lost its render: hits decided which entries went.
C8_Witness ==
    /\ Len(fetchCache) = FETCH_CACHE_SIZE
    /\ Len(renderCache) = HANDLE_CACHE_SIZE
    /\ {"GET", "pack"} \subseteq last.trace
    /\ \E k \in 1..Len(renderCache) : renderCache[k].key[1] \notin CacheKeys(fetchCache)
    /\ \E u \in CacheKeys(fetchCache) :
          \A k \in 1..Len(renderCache) : renderCache[k].key[1] # u

\* C9: every entry of the render cache, hence every sequence render
\* returns, under key (url, width, height, aspect) has exactly width*height
\* values, in the aspect-preserving and in the direct mode, whatever the
\* size of the source image.
C9_SequenceLength ==
    /\ \A k \in 1..Len(renderCache) :
          Len(renderCache[k].value) = renderCache[k].key[2] * renderCache[k].key[3]
    /\ Success =>
          /\ CacheHas(renderCache, LastKey)
          /\ Len(Entry(renderCache, LastKey).value) = Req.width * Req.height

\* An aspect-preserving render whose scaled content does not fill the
\* canvas is cached: padding and content in one sequence.
C9_Witness ==
    \E k \in 1..Len(renderCache) :
        LET e == renderCache[k] IN
        /\ e.key[4]
        /\ \E j \in 1..Len(e.value) : IsZero(e.value[j])
        /\ \E j \in 1..Len(e.value) : ~IsZero(e.value[j])

\* C10: the packed value of a pixel (r, g, b, a) is
\* (a<<24)|(r<<16)|(g<<8)|b, fits 32 bits, gives back a, r, g, b under
\* (v>>24)&0xFF, (v>>16)&0xFF, (v>>8)&0xFF, v&0xFF, and the value at index
\* y*width + x is that of pixel (x, y) of the resized image.
C10_Packing ==
    "pack" \in last.trace =>
        LET img == Resized(Entry(fetchCache, Req.img_url).value, Req.width, Req.height,
                           Req.keep_aspect_ratio).val
            seq == Entry(renderCache, LastKey).value
        IN \A x \in 0..(Req.width - 1), y \in 0..(Req.height - 1) :
              LET v == seq[y * Req.width + x + 1]
                  p == img.rows[y + 1][x + 1]
              IN /\ \A c \in 1..4 : p[c] \in 0..255
                 /\ v.hi \in 0..(Limb - 1) /\ v.lo \in 0..(Limb - 1)
                 /\ v.hi = p[4] * 256 + p[1]
                 /\ v.lo = p[2] * 256 + p[3]
                 /\ AndFF(ShiftRight(v, 24)) = p[4]
                 /\ AndFF(ShiftRight(v, 16)) = p[1]
                 /\ AndFF(ShiftRight(v, 8)) = p[2]
                 /\ AndFF(v) = p[3]

\* A 2x2 render with a padding column was packed: the values differ along
\* a row and repeat down a column.
C10_Witness ==
    /\ "pack" \in last.trace
    /\ Req.width = 2 /\ Req.height = 2
    /\ LET seq == Entry(renderCache, LastKey).value
       IN seq[1] # seq[2] /\ seq[1] = seq[3] /\ seq[2] = seq[4]

\* C11 (as amended): the aspect-fit resizer drives the width when the source
\* is at least as wide as tall and the height otherwise; the driving side of
\* the scaled content is exactly the desired one and the other side is the
\* quotient source side * desired / source driving side truncated to an
\* integer, the resize raising ValueError when that is 0.
FloorDiv(n, d) == CHOOSE q \in 0..n : q * d <= n /\ n < (q + 1) * d
Nearest(n, d) == {q \in 0..(n + 1) : 2 * q * d - d <= 2 * n /\ 2 * n <= 2 * q * d + d}
Wide == fit.img.width >= fit.img.height
Numerator ==
    IF Wide THEN fit.img.height * fit.desired_width ELSE fit.img.width * fit.desired_height
Denominator == IF Wide THEN fit.img.width ELSE fit.img.height
DrivingSide(img) == IF Wide THEN img.width ELSE img.height
OtherSide(img) == IF Wide THEN img.height ELSE img.width
DesiredDriving == IF Wide THEN fit.desired_width ELSE fit.desired_height
DesiredOther == IF Wide THEN fit.desired_height ELSE fit.desired_width

C11_TruncatedScale ==
    fit.called =>
        IF FloorDiv(Numerator, Denominator) >= 1
        THEN /\ fit.scaled.ok
             /\ DrivingSide(fit.scaled.val) = DesiredDriving
             /\ OtherSide(fit.scaled.val) = FloorDiv(Numerator, Denominator)
        ELSE /\ ~fit.scaled.ok
             /\ fit.scaled.exc = "ValueError"
             /\ fit.out = fit.scaled

\* C11 as stated: the non-driving side of the scaled content is the
\* quotient rounded to a nearest integer.
C11_AsStated ==
    (fit.called /\ fit.scaled.ok) =>
        /\ DrivingSide(fit.scaled.val) = DesiredDriving
        /\ OtherSide(fit.scaled.val) \in Nearest(Numerator, Denominator)

C11_Witness ==
    /\ fit.called
    /\ fit.scaled.ok
    /\ Wide
    /\ 2 * (Numerator % Denominator) > Denominator
    /\ fit.scaled.val.width = fit.desired_width
    /\ fit.scaled.val.height = FloorDiv(Numerator, Denominator)

\* C12 (as amended): an aspect-preserving render fails with ValueError
\* exactly when the scaled content's non-driving side would be 0; in every
\* other render that side is at least 1 (it may exceed the desired one, the
\* paste then being clipped to the canvas), the content is pasted at offset
\* 0 on the driving axis and floor((desired - scaled) / 2) on the other
\* axis, and every canvas pixel outside the pasted region has alpha 0.
Half(n) == CHOOSE q \in -MaxSide..MaxSide : 2 * q <= n /\ n < 2 * q + 2

PastedAt(canvas, scaled, ox, oy) ==
    /\ canvas.width = fit.desired_width
    /\ canvas.height = fit.desired_height
    /\ \A y \in 1..canvas.height, x \in 1..canvas.width :
         IF x - ox \in 1..scaled.width /\ y - oy \in 1..scaled.height
         THEN canvas.rows[y][x] = scaled.rows[y - oy][x - ox]
         ELSE canvas.rows[y][x][4] = 0

ExpectedOffset ==
    LET centred == Half(DesiredOther - OtherSide(fit.scaled.val)) IN
    IF Wide THEN <<0, centred>> ELSE <<centred, 0>>

C12_PasteCentredAndClipped ==
    fit.called =>
        IF fit.out.ok
        THEN /\ fit.scaled.ok
             /\ OtherSide(fit.scaled.val) >= 1
             /\ fit.at = ExpectedOffset
             /\ PastedAt(fit.out.val, fit.scaled.val, ExpectedOffset[1], ExpectedOffset[2])
        ELSE /\ fit.out.exc = "ValueError"
             /\ FloorDiv(Numerator, Denominator) = 0

\* C12 as stated: the scaled content always fits inside the canvas.
C12_AsStated ==
    (fit.called /\ fit.out.ok) =>
        /\ fit.scaled.ok
        /\ OtherSide(fit.scaled.val) >= 1
        /\ OtherSide(fit.scaled.val) <= DesiredOther
        /\ PastedAt(fit.out.val, fit.scaled.val, ExpectedOffset[1], ExpectedOffset[2])

C12_Witness ==
    /\ fit.called
    /\ fit.out.ok
    /\ OtherSide(fit.scaled.val) > DesiredOther
    /\ (DesiredOther - OtherSide(fit.scaled.val)) % 2 = 1
    /\ fit.at = ExpectedOffset
    /\ ExpectedOffset[1] + ExpectedOffset[2] < 0

\* C13 (as amended): two calls of render with the same key return
\* bit-identical sequences, the second being a render-cache hit or a new
\* render, when the URL's fetch entry has stayed resident since the first
\* call's sequence was computed.
Returned == Entry(renderCache, LastKey).value

\* The response to req when handle_picture returns arr.
Sent(arr, req) == PlainTextResponse(Encode(arr, req.i, req.cap)).body

SameAsBefore(freshOnly) ==
    (last'.status = 200 /\ last'.exc = "none") =>
        \A p \in warm :
            (p[1] = KeyOf(last'.req) /\ (p[3] \/ ~freshOnly)) =>
                /\ last'.body = Sent(p[2], last'.req)
                /\ Entry(renderCache', KeyOf(last'.req)).value = p[2]

FromResident(fcache, req) ==
    Rendered(Entry(fcache, req.img_url).value, req.width, req.height,
             req.keep_aspect_ratio)

RenderedFromResident ==
    LET req == last'.req IN
    (last'.status = 200 /\ last'.exc = "none") =>
        IF "resize" \in last'.trace
        THEN /\ CacheHas(fetchCache', req.img_url)
             /\ FromResident(fetchCache', req).ok
             /\ last'.body = Sent(FromResident(fetchCache', req).val, req)
             /\ "GET" \notin last'.trace =>
                    /\ CacheHas(fetchCache, req.img_url)
                    /\ Entry(fetchCache', req.img_url) = Entry(fetchCache, req.img_url)
        ELSE /\ CacheHas(renderCache, KeyOf(req))
             /\ last'.body = Sent(Entry(renderCache, KeyOf(req)).value, req)
             /\ fetchCache' = fetchCache

C14_ComputedFromResident == [][RenderedFromResident]_vars

\* C14 as stated: whatever is returned for a URL resident in the fetch
\* cache is derived from the resident SourceImage.
C14_AsStated ==
    (Success /\ CacheHas(fetchCache, Req.img_url)) =>
        /\ FromResident(fetchCache, Req).ok
        /\ last.body = Sent(FromResident(fetchCache, Req).val, Req)

\* A hit on a sequence computed from an image that is no longer the
\* resident one.
C14_Witness ==
    /\ Success
    /\ last.trace = {"handle_picture"}
    /\ CacheHas(fetchCache, Req.img_url)
    /\ last.body = Sent(Returned, Req)
    /\ last.body # Sent(FromResident(fetchCache, Req).val, Req)

\* C15: a request that ends in a validation error or in an in-band fetch or
\* decode error leaves both caches as they were: the same entries with the
\* same values in the same order.
EndsInError(l) == l.status = 400 \/ (l.status = 200 /\ l.exc # "none")

C15_ErrorsLeaveCaches ==
    [][EndsInError(last') => (fetchCache' = fetchCache /\ renderCache' = renderCache)]_vars

\* An in-band error answered while both caches are full.
C15_Witness ==
    /\ last.status = 200
    /\ last.exc = "ConnectionError"
    /\ "GET" \in last.trace
    /\ Len(fetchCache) = FETCH_CACHE_SIZE
    /\ Len(renderCache) = HANDLE_CACHE_SIZE
    /\ ~CacheHas(fetchCache, Req.img_url)

\* C16: under every interleaving of concurrent requests, each cache holds
\* at most its capacity of entries and at most one entry per key; when two
\* requests that raced on the same missing key have both completed and one
\* of them got a result, the cache holds exactly one entry for that key.
Count(cache, key) == Cardinality({k \in 1..Len(cache) : cache[k].key = key})

Bounded(cache, maxsize) ==
    /\ Len(cache) <= maxsize
    /\ \A k \in CacheKeys(cache) : Count(cache, k) = 1

Completed(raced(_)) ==
    /\ \A t \in Threads : threads[t].pc = "done" /\ raced(threads[t])
    /\ \A t, o \in Threads : threads[t].req = threads[o].req

ValidationError == last.status = 400

InBandError == last.status = 200 /\ last.exc # "none" /\ Head(last.body) = "!"

Tokens == last.status = 200 /\ last.exc = "none"

C17_AsStated ==
    last # NoRequest =>
        /\ Cardinality({o \in {"validation", "in-band", "tokens"} :
                           \/ o = "validation" /\ ValidationError
                           \/ o = "in-band" /\ InBandError
                           \/ o = "tokens" /\ Tokens}) = 1
        /\ Passes(Req) => (Req.width > 0 /\ Req.height > 0)
        /\ Recomputed(last) => (Req.width > 0 /\ Req.height > 0)

\* C17, the divergence: a request with two negative dimensions passes the
\* validation, is fetched, and ends in an uncaught ValueError of the resize.
C17_NegativeDimensionsServed ==
    /\ Passes(Req)
    /\ Req.width < 0
    /\ Req.height < 0
    /\ {"GET", "resize"} \subseteq last.trace
    /\ last.exc = "ValueError"
    /\ last.status = 500
    /\ CacheHas(fetchCache, Req.img_url)

\* C18: a request rejected by one of the three validation checks runs no
\* lookup of either cache and no network GET, and leaves both caches'
\* contents and recency orders as they were.
Rejected(l) ==
    /\ l.status = 400
    /\ l.body \in {<<"Start index less than zero">>,
                   <<"Buffer capacity is less or equal zero">>,
                   <<"Start index is more than width * height">>}

C18_ValidationFirst ==
    [][Rejected(last') =>
          /\ ~Passes(last'.req)
          /\ last'.trace = {}
          /\ fetchCache' = fetchCache
          /\ renderCache' = renderCache
          /\ fetchUse' = fetchUse
          /\ renderUse' = renderUse]_vars

\* A request for a resident key is rejected for its start index, the
\* caches being untouched.
C18_Witness ==
    /\ Rejected(last)
    /\ Req.i >= Req.width * Req.height
    /\ Req.i >= 0 /\ Req.cap > 0
    /\ CacheHas(renderCache, LastKey)
    /\ CacheHas(fetchCache, Req.img_url)
    /\ last.trace = {}

\* C19: a request answered by a render-cache hit does not access the fetch
\* cache, whose contents and recency order stay as they were; the fetch
\* cache is looked up only when the render cache missed; and a render entry
\* is served whether or not its URL is still resident in the fetch cache.
RenderHit(l) == l.status = 200 /\ l.exc = "none" /\ l.trace = {"handle_picture"}

NestedStep ==
    /\ RenderHit(last') =>
           /\ CacheHas(renderCache, KeyOf(last'.req))
           /\ fetchCache' = fetchCache
           /\ fetchUse' = fetchUse
           /\ last'.body = Sent(Entry(renderCache, KeyOf(last'.req)).value, last'.req)
    /\ "fetch_picture" \in last'.trace => ~CacheHas(renderCache, KeyOf(last'.req))
    /\ (Passes(last'.req) /\ CacheHas(renderCache, KeyOf(last'.req))) => RenderHit(last')

C19_NestedCaches == [][NestedStep]_vars

\* A render entry served after its URL left the fetch cache, while the fetch
\* cache is full of other URLs.
C19_Witness ==
    /\ RenderHit(last)
    /\ ~CacheHas(fetchCache, Req.img_url)
    /\ Len(fetchCache) = FETCH_CACHE_SIZE
    /\ last.body = Sent(Returned, Req)

====
